---- MODULE Spec2Model ----
(***************************************************************************)
(* Model of the local inventory finder: the search endpoint                *)
(* (src/app/api/search/route.ts), the suggestions and product detail       *)
(* endpoints, the point-of-sale sync and webhook handlers and the catalog  *)
(* store they share, the distance formula of src/lib/utils.ts, and the     *)
(* home page's handleSearch.                                               *)
(*                                                                         *)
(* Numbers are fixed-point integers in units of 1/Scale (degrees,          *)
(* kilometres and plain numbers alike): 1.06 is 10600.  Text is a sequence *)
(* of one-character strings.  A URL parameter is a record saying whether   *)
(* it is present and, if so, its text (URLSearchParams.get gives null for  *)
(* an absent parameter).                                                   *)
(***************************************************************************)
EXTENDS Integers, Sequences, FiniteSets, TLC

\* ------------------------------------------------------------------ bounds

\* Most search log rows written in one behaviour.
MaxSearches == 1

\* Most inventory counts carried by one webhook.
MaxCounts == 1

\* Most search log rows written in one behaviour of the lookups.
MaxLookupSearches == 2

\* ----------------------------------------------------------- number format

\* Fixed-point unit: four decimals.
Scale == 10 ^ 4

\* ------------------------------------------------------------------- text

Digits == <<"0", "1", "2", "3", "4", "5", "6", "7", "8", "9">>

DigitChars == {Digits[i] : i \in 1..10}

IsDigit(c) == c \in DigitChars

DigitValues == [c \in DigitChars |-> (CHOOSE i \in 1..10 : Digits[i] = c) - 1]

DigitVal(c) == DigitValues[c]

\* String.prototype.toLowerCase on one character of the model's alphabet.
LowerChar(c) ==
    CASE c = "H" -> "h"
      [] c = "A" -> "a"
      [] c = "T" -> "t"
      [] c = "C" -> "c"
      [] c = "P" -> "p"
      [] OTHER -> c

toLowerCase(s) == [i \in 1..Len(s) |-> LowerChar(s[i])]

\* String.prototype.includes.
includes(s, t) ==
    \E i \in 0..(Len(s) - Len(t)) :
        \A j \in 1..Len(t) : s[i + j] = t[j]

\* Prisma's { contains: t, mode: 'insensitive' } on a nullable column.
ContainsInsensitive(s, t) == includes(toLowerCase(s), toLowerCase(t))

\* Collation order of the characters product names are written in.
Alphabet == <<" ", "a", "b", "c", "d", "e", "h", "k", "n", "p", "r", "t">>

CharRank(c) == CHOOSE i \in 1..Len(Alphabet) : Alphabet[i] = LowerChar(c)

\* String.prototype.localeCompare: -1, 0 or 1.  Letters compare by
\* collation rank; a name that is a proper prefix of another sorts first.
\* The catalog's names are lower case, so no case tie-break is modelled.
RECURSIVE localeCompare(_, _)
localeCompare(s, t) ==
    IF s = <<>> /\ t = <<>> THEN 0
    ELSE IF s = <<>> THEN -1
    ELSE IF t = <<>> THEN 1
    ELSE IF CharRank(Head(s)) < CharRank(Head(t)) THEN -1
    ELSE IF CharRank(Head(s)) > CharRank(Head(t)) THEN 1
    ELSE localeCompare(Tail(s), Tail(t))

\* ---------------------------------------------------------------- numbers

\* A JavaScript number: NaN, or a finite value in units of 1/Scale.
NaN == [nan |-> TRUE, v |-> 0]

Num(v) == [nan |-> FALSE, v |-> v]

AllDigits(s) == \A i \in 1..Len(s) : IsDigit(s[i])

\* Value of a digit string as an integer.
RECURSIVE DigitsVal(_)
DigitsVal(s) ==
    IF s = <<>> THEN 0
    ELSE DigitsVal(SubSeq(s, 1, Len(s) - 1)) * 10 + DigitVal(s[Len(s)])

\* Value of a fraction's digits in units of 1/Scale (four places kept).
FractionVal(s) ==
    LET d(i) == IF i <= Len(s) THEN DigitVal(s[i]) ELSE 0
    IN  d(1) * 1000 + d(2) * 100 + d(3) * 10 + d(4)

\* Position of the decimal point, 0 when there is none.
DotAt(s) == IF \E i \in 1..Len(s) : s[i] = "."
            THEN CHOOSE i \in 1..Len(s) : s[i] = "." /\ \A j \in 1..(i - 1) : s[j] # "."
            ELSE 0

\* Number(text) for an unsigned decimal literal.
UnsignedNumber(s) ==
    LET dot == DotAt(s)
        ip  == IF dot = 0 THEN s ELSE SubSeq(s, 1, dot - 1)
        fp  == IF dot = 0 THEN <<>> ELSE SubSeq(s, dot + 1, Len(s))
    IN  IF Len(ip) + Len(fp) = 0 \/ ~AllDigits(ip) \/ ~AllDigits(fp)
        THEN NaN
        ELSE Num(DigitsVal(ip) * Scale + FractionVal(fp))

\* Number(text): Number('') is 0, a decimal literal is its value, any
\* other text is NaN.
NumberOfText(text) ==
    IF text = <<>> THEN Num(0)
    ELSE IF Head(text) = "-"
         THEN LET u == UnsignedNumber(Tail(text))
              IN  IF u.nan THEN NaN ELSE Num(0 - u.v)
    ELSE UnsignedNumber(text)

\* Number texts that requests carry often, and their values, computed
\* once.
CommonNumberTexts ==
    {<<"-", "2", "8", ".", "6", "4", "3", "4">>,
     <<"-", "2", "8", ".", "6", "3", "3", "9">>,
     <<"1", "5", "3", ".", "6", "1", "4", "8">>,
     <<"1", ".", "0", "6">>, <<"0", ".", "5">>,
     <<"9", "1">>, <<"-", "1", "8", "1">>, <<"5", "1">>, <<"1", "0", "1">>,
     <<"1", "0">>, <<"1", "1">>}
    \cup {<<Digits[i]>> : i \in 1..10}

CommonNumbers == [text \in CommonNumberTexts |-> NumberOfText(text)]

\* Number(x) as z.coerce.number() applies it to what URLSearchParams.get
\* returned: Number(null) is 0, else Number of the text.
JsNumber(raw) ==
    IF ~raw.present THEN Num(0)
    ELSE IF raw.text \in CommonNumberTexts THEN CommonNumbers[raw.text]
    ELSE NumberOfText(raw.text)

\* Boolean(x) as z.coerce.boolean() applies it: null and '' are false,
\* every other text, 'false' included, is true.
JsBoolean(raw) == raw.present /\ raw.text # <<>>

\* parseInt(text): the leading optionally signed run of digits, NaN when
\* there is none.  The result counts whole units (it is not scaled).
LeadingDigits(s) ==
    LET n == IF \E i \in 1..Len(s) : ~IsDigit(s[i])
             THEN (CHOOSE i \in 1..Len(s) : ~IsDigit(s[i]) /\ \A j \in 1..(i - 1) : IsDigit(s[j])) - 1
             ELSE Len(s)
    IN  SubSeq(s, 1, n)

parseInt(s) ==
    LET neg  == s # <<>> /\ Head(s) = "-"
        body == IF neg THEN Tail(s) ELSE s
        ds   == LeadingDigits(body)
    IN  IF ds = <<>> THEN NaN
        ELSE Num(IF neg THEN 0 - DigitsVal(ds) ELSE DigitsVal(ds))

\* ------------------------------------------------------- parameters, text

Absent == [present |-> FALSE, text |-> <<>>]

Raw(t) == [present |-> TRUE, text |-> t]

\* x || 0 on a number: NaN and 0 are falsy.
OrZero(n) == IF n.nan THEN 0 ELSE n.v

\* -------------------------------------------------- the point of sale side

\* Locations of the seller account, with the coordinates Square reports.
LocationIds == {"L1", "L2"}

SquareLocation(l) ==
    CASE l = "L1" -> [id |-> "L1", latitude |-> -286339, longitude |-> 1536148, status |-> "ACTIVE"]
      [] l = "L2" -> [id |-> "L2", latitude |-> -286336, longitude |-> 1536148, status |-> "ACTIVE"]
      [] l = "L3" -> [id |-> "L3", latitude |-> -286339, longitude |-> 1536148, status |-> "INACTIVE"]

\* A location the seller has closed: Square still returns it, with a status
\* other than ACTIVE.
ClosedLocationIds == {"L3"}

\* Catalog items (ITEM objects) and their variations (ITEM_VARIATION
\* objects), as syncMerchantData transforms them.
VariationIds == {"a1", "a2", "b1"}

SquareProduct(i) ==
    CASE i = "A" -> [id |-> "A", name |-> <<"h", "a", "t">>, description |-> Absent,
                     category |-> Raw(<<"c", "a", "p">>), variations |-> <<"a1", "a2">>]
      [] i = "B" -> [id |-> "B", name |-> <<"c", "a", "p">>, description |-> Raw(<<"h", "a", "t">>),
                     category |-> Absent, variations |-> <<"b1">>]
      [] i = "C" -> [id |-> "C", name |-> <<"b", "e", "r", "e", "t">>, description |-> Absent,
                     category |-> Absent, variations |-> <<>>]

\* Quantity texts the platform reports for a count.
QuantityTexts == {<<"-", "2">>, <<"0">>, <<"2">>}

\* ------------------------------------------------------------------ state

VARIABLES
    env,         \* process environment: which variables are set
    merchants,   \* Merchant rows, keyed by squareMerchantId
    products,    \* Product rows, keyed by squareItemId
    variations,  \* ProductVariation rows, keyed by squareVariationId
    inventory,   \* Inventory rows, keyed by <<productId, variationId>>
    searches,    \* Search rows (the analytics log), in creation order
    request,     \* the request being answered
    response,    \* the response produced for it
    effects,     \* store calls the handler issued for this request
    square,      \* the point of sale: its inventory counts and how often they changed
    handlers,    \* sync and webhook invocations that are between two awaits
    console,     \* the server's console.log lines about syncs and inventory updates
    home         \* the home page: its React state and its handleSearch calls

vars == <<env, merchants, products, variations, inventory, searches, request, response, effects,
          square, handlers, console, home>>

\* What the handlers that answer in one step leave alone.
outside == <<square, handlers, console, home>>

store == <<merchants, products, variations, inventory>>

NoRequest == [kind |-> "none"]

NoResponse == [kind |-> "none"]

\* catalogReads: findMany calls issued; fetched: the Product rows they
\* returned; logWrites: Search rows created; logFailures: search.create
\* calls that threw.
NoEffects == [catalogReads |-> 0, fetched |-> {}, logWrites |-> 0, logFailures |-> 0]

\* No sync is running: the fields of a running one are the inventory counts
\* it read, the items and variations it has still to write, and the
\* product it is at.
NoSync == [pc |-> "idle", inventory |-> <<>>, items |-> <<>>, productId |-> "", vs |-> <<>>]

\* useState<string | null>: null, or a message.
Null == [null |-> TRUE, message |-> ""]

Message(m) == [null |-> FALSE, message |-> m]

\* handleSearch's optional location; the coordinates as toString renders
\* them.
NoLocation == [present |-> FALSE, latitude |-> <<>>, longitude |-> <<>>]

\* The database is empty when the application is deployed; the environment
\* is whatever the deployment sets.  Every variation has two in stock at
\* the point of sale, nothing runs and the home page shows its initial
\* state.
Init ==
    /\ env \in [DATABASE_URL : BOOLEAN, SQUARE_WEBHOOK_SIGNATURE_KEY : BOOLEAN]
    /\ merchants = <<>>
    /\ products = <<>>
    /\ variations = <<>>
    /\ inventory = <<>>
    /\ searches = <<>>
    /\ request = NoRequest
    /\ response = NoResponse
    /\ effects = NoEffects
    /\ square = [counts |-> [v \in VariationIds |-> <<"2">>], changes |-> 0]
    /\ handlers = [sync |-> NoSync, syncs |-> 0, hooks |-> {}]
    /\ console = <<>>
    /\ home = [products |-> <<>>, loading |-> FALSE, error |-> Null, query |-> <<>>,
               userLocation |-> NoLocation, calls |-> <<>>]

\* An upsert whose update branch writes nothing.
PutIfAbsent(f, k, v) == [x \in (DOMAIN f) \cup {k} |-> IF x \in DOMAIN f THEN f[x] ELSE v]

\* f with key k set to v, whether or not k was in its domain (an upsert by
\* unique key).
Put(f, k, v) == [x \in (DOMAIN f) \cup {k} |-> IF x = k THEN v ELSE f[x]]

\* Every handler of the model answers one request at a time: it runs when no
\* response is pending, and Deliver hands the response to the caller.
Idle == response = NoResponse

\* ------------------------------------------------------ the sync handler

\* Listings of the catalog that catalogApi.listCatalog can return, as the
\* seller adds items to the account.
CatalogListings == {<<>>, <<"A">>, <<"B">>, <<"A", "B">>}

RECURSIVE VariationsOf(_)
VariationsOf(items) ==
    IF items = <<>> THEN {}
    ELSE {SquareProduct(Head(items)).variations[k] :
              k \in 1..Len(SquareProduct(Head(items)).variations)}
         \cup VariationsOf(Tail(items))

\* squareAPI.getInventory: one count per variation the platform reports,
\* its quantity run through parseInt.
getInventory(counts) == [v \in DOMAIN counts |-> parseInt(counts[v])]

\* prisma.merchant.upsert of the sync handler.
UpsertMerchant(ms, location) ==
    Put(ms, location.id,
        [id |-> location.id,
         latitude |-> location.latitude,
         longitude |-> location.longitude,
         isActive |-> location.status = "ACTIVE"])

\* An upsert whose update branch moves the row to the syncing merchant.
UpsertProductReassigning(ps, merchantId, sp) ==
    Put(ps, sp.id,
        [id |-> sp.id,
         merchantId |-> merchantId,
         name |-> sp.name,
         description |-> sp.description,
         category |-> sp.category,
         isActive |-> TRUE])

\* prisma.product.upsert: an existing row keeps its merchantId.
UpsertProduct(ps, merchantId, sp) ==
    Put(ps, sp.id,
        [id |-> sp.id,
         merchantId |-> IF sp.id \in DOMAIN ps THEN ps[sp.id].merchantId ELSE merchantId,
         name |-> sp.name,
         description |-> sp.description,
         category |-> sp.category,
         isActive |-> TRUE])

\* prisma.productVariation.upsert: an existing row keeps its productId.
UpsertVariation(vs, productId, v) ==
    Put(vs, v,
        [id |-> v,
         productId |-> IF v \in DOMAIN vs THEN vs[v].productId ELSE productId,
         isActive |-> TRUE])

\* The body of the inner loop for the variations of one product.  st is
\* the store so far and whether a write has thrown; a quantity that is NaN
\* makes prisma.inventory.upsert throw (the column is Int), and the writes
\* made before it stay.
RECURSIVE SyncVariations(_, _, _, _)
SyncVariations(st, productId, vs, inv) ==
    IF vs = <<>> \/ st.failed THEN st
    ELSE LET v   == Head(vs)
             st1 == [st EXCEPT !.variations = UpsertVariation(st.variations, productId, v)]
             st2 == IF v \notin DOMAIN inv THEN st1
                    ELSE IF inv[v].nan THEN [st1 EXCEPT !.failed = TRUE]
                    ELSE [st1 EXCEPT !.inventory =
                              Put(st1.inventory, <<productId, st1.variations[v].id>>, inv[v].v)]
         IN  SyncVariations(st2, productId, Tail(vs), inv)

\* The outer loop over the products of the listing.
RECURSIVE SyncProducts(_, _, _, _)
SyncProducts(st, merchantId, items, inv) ==
    IF items = <<>> \/ st.failed THEN st
    ELSE LET sp  == SquareProduct(Head(items))
             st1 == [st EXCEPT !.products = UpsertProduct(st.products, merchantId, sp)]
             st2 == SyncVariations(st1, st1.products[sp.id].id, sp.variations, inv)
         IN  SyncProducts(st2, merchantId, Tail(items), inv)

\* The sync handler's POST with the given locationId ("" when the body has
\* none), while the platform lists `items` and reports `counts`.
Sync(locationId, items, counts) ==
    /\ Idle
    /\ request' = [kind |-> "sync", locationId |-> locationId]
    /\ effects' = NoEffects
    /\ UNCHANGED <<env, searches>>
    /\ UNCHANGED outside
    /\ IF locationId = ""
       THEN /\ response' = [kind |-> "sync", status |-> 400, success |-> FALSE]
            /\ UNCHANGED store
       ELSE IF locationId \notin LocationIds \cup ClosedLocationIds
       THEN \* getLocation throws: 'Failed to sync merchant data'
            /\ response' = [kind |-> "sync", status |-> 500, success |-> FALSE]
            /\ UNCHANGED store
       ELSE LET location == SquareLocation(locationId)
                ms  == UpsertMerchant(merchants, location)
                st0 == [products |-> products, variations |-> variations,
                        inventory |-> inventory, failed |-> FALSE]
                st  == SyncProducts(st0, ms[location.id].id, items, getInventory(counts))
            IN  /\ merchants' = ms
                /\ products' = st.products
                /\ variations' = st.variations
                /\ inventory' = st.inventory
                /\ response' = IF st.failed
                               THEN [kind |-> "sync", status |-> 500, success |-> FALSE]
                               ELSE [kind |-> "sync", status |-> 200, success |-> TRUE,
                                     synced |-> [products |-> Len(items)]]

SyncRequest ==
    \/ \E locationId \in {"", "L9"} : Sync(locationId, <<>>, <<>>)
    \/ \E locationId \in LocationIds, items \in CatalogListings :
           \E counted \in {{}, VariationsOf(items)}, q \in QuantityTexts :
               Sync(locationId, items, [x \in counted |-> q])

\* --------------------------------------------------- the webhook handler

\* The x-square-signature header against the HMAC of url + body:
\* "match" is the digest, "mismatch" another text of the digest's length,
\* "short" a text of another length (the header missing included), on
\* which crypto.timingSafeEqual throws.
Signatures == {"match", "mismatch", "short"}

WebhookTypes == {"inventory.count.updated", "catalog.version.updated", "location.updated"}

\* inventory_counts of a webhook body: up to MaxCounts counts.
CountLists ==
    UNION {[1..n -> [catalog_object_id : VariationIds \cup {"zz"}, quantity : QuantityTexts]] :
               n \in 0..MaxCounts}

\* handleInventoryUpdate: the loop over data.inventory_counts.
RECURSIVE handleInventoryUpdate(_, _, _)
handleInventoryUpdate(inv, vs, counts) ==
    IF counts = <<>> THEN inv
    ELSE LET count == Head(counts)
             inv1  == IF count.catalog_object_id \in DOMAIN vs
                      THEN LET variation == vs[count.catalog_object_id]
                           IN  Put(inv, <<variation.productId, variation.id>>,
                                   OrZero(parseInt(count.quantity)))
                      ELSE inv
         IN  handleInventoryUpdate(inv1, vs, Tail(counts))

\* A comparison of the lengths only.
verifyWebhookSignatureByLength(signatureKey, signature) ==
    IF ~signatureKey THEN "throws"
    ELSE IF signature = "short" THEN "throws"
    ELSE "valid"

\* squareAPI.verifyWebhookSignature: throws when the signing key is not
\* configured or the header has not the digest's length, else tells whether
\* the header is the digest.
verifyWebhookSignature(signatureKey, signature) ==
    IF ~signatureKey THEN "throws"
    ELSE IF signature = "short" THEN "throws"
    ELSE IF signature = "match" THEN "valid"
    ELSE "invalid"

Webhook(signature, type, counts) ==
    /\ Idle
    /\ request' = [kind |-> "webhook", signature |-> signature, type |-> type]
    /\ effects' = NoEffects
    /\ UNCHANGED <<env, merchants, products, variations, searches>>
    /\ UNCHANGED outside
    /\ IF verifyWebhookSignature(env.SQUARE_WEBHOOK_SIGNATURE_KEY, signature) = "throws"
       THEN /\ response' = [kind |-> "webhook", status |-> 500, success |-> FALSE]
            /\ UNCHANGED inventory
       ELSE IF verifyWebhookSignature(env.SQUARE_WEBHOOK_SIGNATURE_KEY, signature) = "invalid"
       THEN /\ response' = [kind |-> "webhook", status |-> 401, success |-> FALSE]
            /\ UNCHANGED inventory
       ELSE /\ inventory' = IF type = "inventory.count.updated"
                            THEN handleInventoryUpdate(inventory, variations, counts)
                            ELSE inventory
            /\ response' = [kind |-> "webhook", status |-> 200, success |-> TRUE]

WebhookRequest ==
    \E signature \in Signatures, type \in WebhookTypes :
        \E counts \in IF type = "inventory.count.updated" /\ signature = "match"
                      THEN CountLists ELSE {<<>>} :
            Webhook(signature, type, counts)

\* The response reaches the caller and the handler's invocation ends.
Deliver ==
    /\ ~Idle
    /\ request' = NoRequest
    /\ response' = NoResponse
    /\ effects' = NoEffects
    /\ UNCHANGED <<env, store, searches>>
    /\ UNCHANGED outside

\* ---------------------------------------------------- the search handler

\* BYRON_BAY_COORDS.
BYRON_BAY_COORDS == [latitude |-> -286434, longitude |-> 1536148]

\* calculateDistance, in units of 1/Scale km: the value of the haversine
\* formula (R = 6371) at the coordinates the model uses, to four decimals.
\* A point is at distance 0 from itself.
calculateDistance(lat1, lng1, lat2, lng2) ==
    LET p == <<lat1, lng1, lat2, lng2>>
    IN  CASE lat1 = lat2 /\ lng1 = lng2 -> 0
          [] p = <<-286434, 1536148, -286339, 1536148>> -> 10564
          [] p = <<-286434, 1536148, -286336, 1536148>> -> 10897
          [] p = <<0, 0, -286339, 1536148>> -> 157716636
          [] p = <<0, 0, -286336, 1536148>> -> 157716868
          [] p = <<0, 1536148, -286339, 1536148>> -> 31839444
          [] p = <<0, 1536148, -286336, 1536148>> -> 31839111
          [] p = <<-286339, 0, -286339, 1536148>> -> 130561697
          [] p = <<-286339, 0, -286336, 1536148>> -> 130561996
          [] p = <<-286339, 1536148, -286336, 1536148>> -> 334

\* Math.round(x) for x >= 0 given in units of 1/Scale: the nearest integer,
\* a half rounding up.
MathRound(x) == (x + Scale \div 2) \div Scale

\* The distance cut to one decimal.
RoundDistanceDown(distance) == ((distance * 10) \div Scale) * (Scale \div 10)

\* Math.round(distance * 10) / 10, in units of 1/Scale.
RoundDistance(distance) == MathRound(distance * 10) * (Scale \div 10)

\* A schema result that is not undefined.
Defined(v) == [defined |-> TRUE, v |-> v]

\* a ?? b
Nullish(a, b) == IF a.defined THEN a.v ELSE b

\* z.string().min(lo).max(hi) on a raw parameter: null is not a string.
ZodStringOk(raw, lo, hi) == raw.present /\ Len(raw.text) >= lo /\ Len(raw.text) <= hi

\* z.coerce.number().min(lo).max(hi): the input is passed through Number
\* first, so null has become 0 before the range is checked.
ZodNumberOk(raw, lo, hi) ==
    LET n == JsNumber(raw)
    IN  ~n.nan /\ n.v >= lo * Scale /\ n.v <= hi * Scale

\* The schema without a range on limit.
FieldErrorsLimitUnchecked(params) ==
    {f \in {"query", "lat", "lng", "radius", "category"} :
        CASE f = "query"    -> ~ZodStringOk(params.query, 1, 100)
          [] f = "lat"      -> ~ZodNumberOk(params.lat, -90, 90)
          [] f = "lng"      -> ~ZodNumberOk(params.lng, -180, 180)
          [] f = "radius"   -> ~ZodNumberOk(params.radius, 1, 50)
          [] f = "category" -> ~params.category.present}

\* searchSchema, field by field: the names of the fields that fail.
\* .optional() and .default() replace undefined only, and
\* URLSearchParams.get never returns undefined, so neither applies.
FieldErrors(params) ==
    {f \in {"query", "lat", "lng", "radius", "limit", "category"} :
        CASE f = "query"    -> ~ZodStringOk(params.query, 1, 100)
          [] f = "lat"      -> ~ZodNumberOk(params.lat, -90, 90)
          [] f = "lng"      -> ~ZodNumberOk(params.lng, -180, 180)
          [] f = "radius"   -> ~ZodNumberOk(params.radius, 1, 50)
          [] f = "limit"    -> ~ZodNumberOk(params.limit, 1, 100)
          [] f = "category" -> ~params.category.present}

\* searchSchema.parse on parameters that pass.
Validated(params) ==
    [query    |-> params.query.text,
     lat      |-> Defined(JsNumber(params.lat).v),
     lng      |-> Defined(JsNumber(params.lng).v),
     radius   |-> JsNumber(params.radius).v,
     limit    |-> JsNumber(params.limit).v,
     category |-> params.category.text,
     inStock  |-> JsBoolean(params.inStock)]

\* The where clause without the merchant's active flag.
MatchesAnyMerchant(p, v) ==
    /\ p.isActive
    /\ v.query # <<>> =>
          \/ ContainsInsensitive(p.name, v.query)
          \/ p.description.present /\ ContainsInsensitive(p.description.text, v.query)
          \/ p.category.present /\ ContainsInsensitive(p.category.text, v.query)
    /\ v.category # <<>> =>
          p.category.present /\ ContainsInsensitive(p.category.text, v.category)

\* The where clause of the catalog query on one Product row.
Matches(p, v) ==
    /\ p.isActive
    /\ merchants[p.merchantId].isActive
    /\ v.query # <<>> =>
          \/ ContainsInsensitive(p.name, v.query)
          \/ p.description.present /\ ContainsInsensitive(p.description.text, v.query)
          \/ p.category.present /\ ContainsInsensitive(p.category.text, v.query)
    /\ v.category # <<>> =>
          p.category.present /\ ContainsInsensitive(p.category.text, v.category)

\* The elements of a sequence.
Range(s) == {s[i] : i \in 1..Len(s)}

\* Sequences of n distinct elements of S.
RECURSIVE Arrangements(_, _)
Arrangements(S, n) ==
    IF n = 0 THEN {<<>>}
    ELSE UNION {{<<x>> \o t : t \in Arrangements(S \ {x}, n - 1)} : x \in S}

\* The catalog query without its take.
findManyUncapped(v, take) ==
    LET matching == {i \in DOMAIN products : Matches(products[i], v)}
    IN  Arrangements(matching, Cardinality(matching))

\* prisma.product.findMany({ where, take }): the query has no orderBy, so
\* any `take` of the matching rows may come back, in any order.
findMany(v, take) ==
    LET matching == {i \in DOMAIN products : Matches(products[i], v)}
        n == IF Cardinality(matching) < take THEN Cardinality(matching) ELSE take
    IN  Arrangements(matching, n)

\* variation.inventory[0]?.quantity || 0
QuantityOf(variationId) ==
    LET rows == {k \in DOMAIN inventory : k[2] = variationId}
    IN  IF rows = {} THEN 0 ELSE inventory[CHOOSE k \in rows : TRUE]

RECURSIVE SumQuantities(_)
SumQuantities(vs) ==
    IF vs = {} THEN 0
    ELSE LET v == CHOOSE x \in vs : TRUE
         IN  QuantityOf(v) + SumQuantities(vs \ {v})

\* The total over the variations that have stock to sell.
TotalStockOfPositive(productId) ==
    SumQuantities({v \in DOMAIN variations :
                      variations[v].productId = productId /\ QuantityOf(v) > 0})

\* product.variations.reduce(...): the product's total stock.
TotalStock(productId) ==
    SumQuantities({v \in DOMAIN variations : variations[v].productId = productId})

\* The radius test with the comparison turned round.
OutsideRadiusInverted(distance, radius) == distance < radius

\* if (distance > validatedParams.radius) return null
OutsideRadius(distance, radius) == distance > radius

\* if (validatedParams.inStock && totalStock === 0) return null
OutOfStock(inStock, totalStock) == inStock /\ totalStock = 0

\* The map step for one row: null when the row is dropped, else the
\* transformed product with its unrounded distance.
Transform(productId, v, userLat, userLng) ==
    LET product  == products[productId]
        merchant == merchants[product.merchantId]
        distance == calculateDistance(userLat, userLng, merchant.latitude, merchant.longitude)
        totalStock == TotalStock(productId)
    IN  IF OutsideRadius(distance, v.radius) THEN [keep |-> FALSE]
        ELSE IF OutOfStock(v.inStock, totalStock) THEN [keep |-> FALSE]
        ELSE [keep |-> TRUE,
              distance |-> distance,
              product |->
                [id |-> product.id,
                 name |-> product.name,
                 description |-> product.description,
                 category |-> product.category,
                 merchant |-> [id |-> merchant.id,
                               latitude |-> merchant.latitude,
                               longitude |-> merchant.longitude,
                               distance |-> RoundDistance(distance)],
                 variations |-> {[id |-> x, quantity |-> QuantityOf(x)] :
                                    x \in {y \in DOMAIN variations : variations[y].productId = productId}},
                 totalStock |-> totalStock]]

\* The comparator with the stock tie-break ascending.
CompareStockAscending(a, b) ==
    IF a.distance # b.distance THEN a.distance - b.distance
    ELSE IF a.product.totalStock # b.product.totalStock
         THEN a.product.totalStock - b.product.totalStock
    ELSE localeCompare(a.product.name, b.product.name)

\* The comparator of the sort: negative when a comes first.
Compare(a, b) ==
    IF a.distance # b.distance THEN a.distance - b.distance
    ELSE IF a.product.totalStock # b.product.totalStock
         THEN b.product.totalStock - a.product.totalStock
    ELSE localeCompare(a.product.name, b.product.name)

\* x put into the sorted sequence s behind every element that does not
\* come after it (Array.prototype.sort is stable).
RECURSIVE Insert(_, _)
Insert(s, x) ==
    IF s = <<>> THEN <<x>>
    ELSE IF Compare(Head(s), x) <= 0 THEN <<Head(s)>> \o Insert(Tail(s), x)
    ELSE <<x>> \o s

RECURSIVE Sort(_)
Sort(s) == IF s = <<>> THEN <<>> ELSE Insert(Sort(SubSeq(s, 1, Len(s) - 1)), s[Len(s)])

\* .filter(Boolean)
Kept(s) == SelectSeq(s, LAMBDA x : x.keep)

\* A slice that keeps one element more.
SliceInclusive(s, n) == SubSeq(s, 1, IF Len(s) < n + 1 THEN Len(s) ELSE n + 1)

\* .slice(0, n)
Slice(s, n) == SubSeq(s, 1, IF Len(s) < n THEN Len(s) ELSE n)

\* The chain with the slice taken before the sort.
RankSliceFirst(rows, v, userLat, userLng) ==
    LET mapped == [i \in 1..Len(rows) |-> Transform(rows[i], v, userLat, userLng)]
        top    == Sort(Slice(Kept(mapped), v.limit \div Scale))
    IN  [i \in 1..Len(top) |-> top[i].product]

\* .map(...).filter(Boolean).sort(...).slice(0, limit).map(item => item.product)
Rank(rows, v, userLat, userLng) ==
    LET mapped == [i \in 1..Len(rows) |-> Transform(rows[i], v, userLat, userLng)]
        top    == Slice(Sort(Kept(mapped)), v.limit \div Scale)
    IN  [i \in 1..Len(top) |-> top[i].product]

\* The error body with another code on the catch-all path.
ErrorResponseInternal(status, code, details) ==
    [kind |-> "search", status |-> status, success |-> FALSE,
     error |-> [code |-> IF status = 500 THEN "INTERNAL_ERROR" ELSE code, details |-> details]]

ErrorResponse(status, code, details) ==
    [kind |-> "search", status |-> status, success |-> FALSE,
     error |-> [code |-> code, details |-> details]]

\* An upsert on the query in place of the create: the row replaces the log.
CreateSearchReplacing(log, row) == <<row>>

\* prisma.search.create: the row is added to the table.
CreateSearch(log, row) == Append(log, row)

\* The log row with the requested limit in place of the result count.
LogRowLimitCounted(v, userLat, userLng, results) ==
    [query |-> v.query, latitude |-> userLat, longitude |-> userLng,
     radius |-> v.radius, results |-> v.limit \div Scale]

\* The data of prisma.search.create.
LogRow(v, userLat, userLng, results) ==
    [query |-> v.query, latitude |-> userLat, longitude |-> userLng,
     radius |-> v.radius, results |-> results]

\* The pagination block with hasMore set when the page is full.
PaginationFullPageHasMore(count, limit) ==
    [total |-> count, page |-> 1, limit |-> limit, hasMore |-> count * Scale >= limit]

\* The pagination block of the response.
Pagination(count, limit) ==
    [total |-> count, page |-> 1, limit |-> limit, hasMore |-> FALSE]

\* GET /api/search with the raw URL parameters `params`; `fault` says which
\* store call, if any, throws.
Search(params, fault) ==
    /\ Idle
    /\ request' = [kind |-> "search", params |-> params]
    /\ UNCHANGED <<env, store>>
    /\ UNCHANGED outside
    /\ IF ~env.DATABASE_URL
       THEN /\ response' = ErrorResponse(503, "BUILD_TIME", {})
            /\ effects' = NoEffects
            /\ UNCHANGED searches
       ELSE IF FieldErrors(params) # {}
       THEN /\ response' = ErrorResponse(400, "INVALID_PARAMS", FieldErrors(params))
            /\ effects' = NoEffects
            /\ UNCHANGED searches
       ELSE LET v       == Validated(params)
                userLat == Nullish(v.lat, BYRON_BAY_COORDS.latitude)
                userLng == Nullish(v.lng, BYRON_BAY_COORDS.longitude)
                take    == v.limit * 2
            IN  IF fault = "read" \/ take % Scale # 0
                THEN \* findMany throws (take must be an integer)
                     /\ response' = ErrorResponse(500, "SEARCH_ERROR", {})
                     /\ effects' = [catalogReads |-> 1, fetched |-> {},
                                     logWrites |-> 0, logFailures |-> 0]
                     /\ UNCHANGED searches
                ELSE \E rows \in findMany(v, take \div Scale) :
                       LET productsWithDistance == Rank(rows, v, userLat, userLng)
                       IN  IF fault = "log"
                           THEN \* prisma.search.create throws inside the try block
                                /\ response' = ErrorResponse(500, "SEARCH_ERROR", {})
                                /\ effects' = [catalogReads |-> 1, fetched |-> Range(rows),
                                                logWrites |-> 0, logFailures |-> 1]
                                /\ UNCHANGED searches
                           ELSE /\ searches' = CreateSearch(searches,
                                       LogRow(v, userLat, userLng, Len(productsWithDistance)))
                                /\ effects' = [catalogReads |-> 1, fetched |-> Range(rows),
                                                logWrites |-> 1, logFailures |-> 0]
                                /\ response' =
                                       [kind |-> "search", status |-> 200, success |-> TRUE,
                                        products |-> productsWithDistance,
                                        pagination |-> Pagination(Len(productsWithDistance), v.limit),
                                        searchMeta |-> [query |-> v.query,
                                                        location |-> [lat |-> userLat, lng |-> userLng],
                                                        radius |-> v.radius]]

StoreFaults == {"none", "read", "log"}

\* ------------------------------------------------------- request inputs

Hat == <<"h", "a", "t">>

\* A query of 101 characters.
LongQuery == [i \in 1..101 |-> "a"]

FallbackLat == Raw(<<"-", "2", "8", ".", "6", "4", "3", "4">>)

FallbackLng == Raw(<<"1", "5", "3", ".", "6", "1", "4", "8">>)

\* The latitude of location L1.
OtherLat == Raw(<<"-", "2", "8", ".", "6", "3", "3", "9">>)

\* Well-formed searches around the fallback coordinate.
SearchInputs ==
    [query    : {Raw(Hat)},
     lat      : {FallbackLat},
     lng      : {FallbackLng},
     radius   : {Raw(<<"1", ".", "0", "6">>), Raw(<<"5">>)},
     limit    : {Raw(<<"1">>), Raw(<<"2">>)},
     category : {Raw(<<>>)},
     inStock  : {Absent, Raw(<<"t", "r", "u", "e">>)}]

\* Raw searches: every parameter absent, well formed or out of range.
RawInputs ==
    [query    : {Absent, Raw(<<>>), Raw(Hat), Raw(LongQuery)},
     lat      : {Absent, OtherLat, Raw(<<"9", "1">>)},
     lng      : {Absent, FallbackLng, Raw(<<"-", "1", "8", "1">>)},
     radius   : {Absent, Raw(<<"0", ".", "5">>), Raw(<<"5">>), Raw(<<"5", "1">>)},
     limit    : {Absent, Raw(<<"2">>), Raw(<<"1", "0", "1">>)},
     category : {Absent, Raw(<<>>)},
     inStock  : {Absent, Raw(<<"t", "r", "u", "e">>)}]

\* A store fault can only show on a request that reaches the store.
FaultsFor(params) == IF FieldErrors(params) = {} THEN StoreFaults ELSE {"none"}

\* A search that may leave the log at its length: one that fails before
\* the log write.
MayNotLog(params, fault) ==
    IF fault # "none" THEN TRUE
    ELSE IF ~env.DATABASE_URL THEN TRUE
    ELSE FieldErrors(params) # {}

\* The search log is kept to MaxSearches rows.
SearchRequest ==
    \E params \in SearchInputs : \E fault \in FaultsFor(params) :
        /\ Idle
        /\ IF Len(searches) < MaxSearches THEN TRUE ELSE MayNotLog(params, fault)
        /\ Search(params, fault)
        /\ Len(searches') <= MaxSearches

RawSearchRequest ==
    \E params \in RawInputs : \E fault \in FaultsFor(params) :
        /\ Idle
        /\ IF Len(searches) < MaxSearches THEN TRUE ELSE MayNotLog(params, fault)
        /\ Search(params, fault)
        /\ Len(searches') <= MaxSearches

\* A sync of the whole catalog while every variation has two in stock.
StockedSync ==
    \E locationId \in LocationIds :
        Sync(locationId, <<"A", "B">>, [v \in VariationIds |-> <<"2">>])

\* ---------------------------------------------------------- specifications

\* The catalog changing under searches around the fallback coordinate.
Next == SearchRequest \/ SyncRequest \/ WebhookRequest \/ Deliver

Spec == Init /\ [][Next]_vars

\* Every raw search against a stocked catalog.
NextRequests == RawSearchRequest \/ StockedSync \/ Deliver

\* The signing key plays no part in the search handler.
InitRequests == Init /\ env.SQUARE_WEBHOOK_SIGNATURE_KEY

SpecRequests == InitRequests /\ [][NextRequests]_vars

\* ----------------------------------------------- the suggestions handler

\* The vocabulary of generateSearchSuggestions, in its order.
Vocabulary ==
    <<<<"h", "o", "o", "d", "i", "e">>,
      <<"t", "-", "s", "h", "i", "r", "t">>,
      <<"j", "a", "c", "k", "e", "t">>,
      <<"j", "e", "a", "n", "s">>,
      <<"s", "n", "e", "a", "k", "e", "r", "s">>,
      <<"d", "r", "e", "s", "s">>,
      <<"s", "h", "i", "r", "t">>,
      <<"s", "w", "e", "a", "t", "e", "r">>,
      <<"p", "a", "n", "t", "s">>,
      <<"s", "h", "o", "e", "s">>>>

\* The first five entries whatever the query.
generateSearchSuggestionsUnfiltered(query) == Slice(Vocabulary, 5)

\* generateSearchSuggestions(query): the first five entries for an empty
\* query, else the first five entries that contain it.
generateSearchSuggestions(query) ==
    IF query = <<>> THEN Slice(Vocabulary, 5)
    ELSE Slice(SelectSeq(Vocabulary,
                         LAMBDA suggestion : includes(toLowerCase(suggestion), toLowerCase(query))),
               5)

\* suggestionsSchema, field by field: the names of the fields that fail.
\* query has been through `|| ''`, so it is always a string; limit is
\* coerced with Number, and .default(5) replaces undefined only.
SuggestionFieldErrors(params) ==
    {f \in {"query", "limit"} :
        CASE f = "query" -> Len(params.query.text) > 50
          [] f = "limit" -> ~ZodNumberOk(params.limit, 1, 10)}

\* GET /api/search/suggestions with the raw URL parameters `params`.  The
\* handler makes no store call, so nothing on its path throws but the
\* schema.
Suggestions(params) ==
    /\ Idle
    /\ request' = [kind |-> "suggestions", params |-> params]
    /\ effects' = NoEffects
    /\ UNCHANGED <<env, store, searches>>
    /\ UNCHANGED outside
    /\ IF SuggestionFieldErrors(params) # {}
       THEN response' = [kind |-> "suggestions", status |-> 400, success |-> FALSE,
                         error |-> [code |-> "INVALID_PARAMS",
                                    details |-> SuggestionFieldErrors(params)]]
       ELSE LET query == IF params.query.present THEN params.query.text ELSE <<>>
                limit == JsNumber(params.limit).v
            IN  response' = [kind |-> "suggestions", status |-> 200, success |-> TRUE,
                             suggestions |-> Slice(generateSearchSuggestions(query),
                                                   limit \div Scale)]

\* Partial queries: none, empty, matching eight entries, matching five in
\* another case, matching none, and one of 101 characters.
SuggestionInputs ==
    [query : {Absent, Raw(<<>>), Raw(<<"s">>), Raw(<<"T">>), Raw(<<"z">>), Raw(LongQuery)},
     limit : {Absent, Raw(<<"0">>), Raw(<<"1", "1">>)}
                 \cup {Raw(<<Digits[n + 1]>>) : n \in 1..9} \cup {Raw(<<"1", "0">>)}]

SuggestionsRequest == \E params \in SuggestionInputs : Suggestions(params)

\* --------------------------------------------- the product detail handler

\* undefined.
Undefined == [defined |-> FALSE, v |-> 0]

\* parseFloat(text): the value of a decimal literal, NaN for the empty
\* text and for a text that does not start with one.  (The texts of the
\* model are decimal literals or start with no digit.)
parseFloat(s) ==
    IF s = <<>> THEN NaN
    ELSE IF s \in CommonNumberTexts THEN CommonNumbers[s]
    ELSE NumberOfText(s)

\* Truthiness of what URLSearchParams.get returned: null and '' are falsy.
Truthy(raw) == raw.present /\ raw.text # <<>>

\* The distance of the detail handler before rounding: undefined unless
\* both lat and lng are truthy, NaN when one of them is not a number.
DetailDistance(lat, lng, merchant) ==
    IF ~(Truthy(lat) /\ Truthy(lng)) THEN Undefined
    ELSE LET la == parseFloat(lat.text)
             lo == parseFloat(lng.text)
         IN  IF la.nan \/ lo.nan THEN Defined(NaN)
             ELSE Defined(Num(calculateDistance(la.v, lo.v, merchant.latitude, merchant.longitude)))

\* distance ? Math.round(distance * 10) / 10 : undefined
\* (undefined, NaN and 0 are falsy).
ReportedDistance(distance) ==
    IF ~distance.defined \/ distance.v.nan \/ distance.v.v = 0 THEN Undefined
    ELSE Defined(RoundDistance(distance.v.v))

\* GET /api/products/[id] with the raw lat and lng; `fault` says whether
\* findUnique throws.  The handler writes nothing.
ProductDetail(productId, lat, lng, fault) ==
    /\ Idle
    /\ request' = [kind |-> "product", id |-> productId, lat |-> lat, lng |-> lng]
    /\ effects' = NoEffects
    /\ UNCHANGED <<env, store, searches>>
    /\ UNCHANGED outside
    /\ IF fault = "read"
       THEN response' = [kind |-> "product", status |-> 500, success |-> FALSE,
                         error |-> [code |-> "PRODUCT_ERROR"]]
       ELSE IF productId \notin DOMAIN products
       THEN response' = [kind |-> "product", status |-> 404, success |-> FALSE,
                         error |-> [code |-> "PRODUCT_NOT_FOUND"]]
       ELSE LET product  == products[productId]
                merchant == merchants[product.merchantId]
                distance == DetailDistance(lat, lng, merchant)
                totalStock == TotalStock(productId)
            IN  response' =
                    [kind |-> "product", status |-> 200, success |-> TRUE,
                     product |->
                       [id |-> product.id,
                        name |-> product.name,
                        description |-> product.description,
                        category |-> product.category,
                        merchant |-> [id |-> merchant.id,
                                      latitude |-> merchant.latitude,
                                      longitude |-> merchant.longitude,
                                      distance |-> ReportedDistance(distance)],
                        variations |-> {[id |-> x, quantity |-> QuantityOf(x)] :
                                           x \in {y \in DOMAIN variations :
                                                      variations[y].productId = productId}},
                        totalStock |-> totalStock]]

\* Product ids asked for: the catalog's items (C has no variations) and an
\* id that no row has.
DetailIds == {"A", "B", "C", "Z"}

\* Coordinates asked from: none, the fallback coordinate, the coordinate
\* of location L1.
DetailLats == {Absent, FallbackLat, OtherLat}

DetailLngs == {Absent, FallbackLng}

ProductRequest ==
    \E productId \in DetailIds, lat \in DetailLats, lng \in DetailLngs, fault \in {"none", "read"} :
        ProductDetail(productId, lat, lng, fault)

\* ------------------------------------------- searches among other lookups

\* One well-formed search and the same search without its limit.
LookupSearchInputs ==
    [query    : {Raw(<<"T">>)},
     lat      : {FallbackLat},
     lng      : {FallbackLng},
     radius   : {Raw(<<"5">>)},
     limit    : {Absent, Raw(<<"2">>)},
     category : {Raw(<<>>)},
     inStock  : {Absent}]

\* The search log is kept to MaxLookupSearches rows.
LookupSearchRequest ==
    \E params \in LookupSearchInputs : \E fault \in FaultsFor(params) :
        /\ Idle
        /\ IF Len(searches) < MaxLookupSearches THEN TRUE ELSE MayNotLog(params, fault)
        /\ Search(params, fault)
        /\ Len(searches') <= MaxLookupSearches

\* Syncs of the three-item catalog: no counts reported, one variation
\* counted, or every variation counted.
LookupSync ==
    \E locationId \in LocationIds, counted \in {{}, {"a1"}, VariationIds}, q \in QuantityTexts :
        Sync(locationId, <<"A", "B", "C">>, [x \in counted |-> q])

\* Searches, suggestions and product details over a catalog that syncs
\* change, in a deployment with its environment set.
NextLookups ==
    LookupSearchRequest \/ SuggestionsRequest \/ ProductRequest \/ LookupSync \/ Deliver

InitLookups == Init /\ env.DATABASE_URL /\ env.SQUARE_WEBHOOK_SIGNATURE_KEY

SpecLookups == InitLookups /\ [][NextLookups]_vars

\* ------------------------------------------- searches over a larger catalog

\* Searches by a letter that every item carries and by a word that two of
\* them carry, with and without a category filter, around the fallback
\* coordinate.
CatalogSearchInputs ==
    [query    : {Raw(<<"T">>), Raw(<<"c", "a", "p">>)},
     lat      : {FallbackLat},
     lng      : {FallbackLng},
     radius   : {Raw(<<"5">>)},
     limit    : {Raw(<<"1">>), Raw(<<"2">>)},
     category : {Raw(<<>>), Raw(<<"C", "A", "P">>)},
     inStock  : {Absent, Raw(<<"t", "r", "u", "e">>), Raw(<<"f", "a", "l", "s", "e">>)}]

CatalogSearchRequest ==
    \E params \in CatalogSearchInputs :
        /\ Idle
        /\ IF Len(searches) < MaxSearches THEN TRUE ELSE MayNotLog(params, "none")
        /\ Search(params, "none")
        /\ Len(searches') <= MaxSearches

\* Syncs of an open and of a closed location, the seller listing one item,
\* the other two, or all three, with no counts or two of every variation.
CatalogSync ==
    \E locationId \in {"L1"} \cup ClosedLocationIds,
       items \in {<<"A">>, <<"B", "C">>, <<"A", "B", "C">>} :
        \E counted \in {{}, VariationsOf(items)} :
            Sync(locationId, items, [x \in counted |-> <<"2">>])

NextCatalog == CatalogSearchRequest \/ CatalogSync \/ Deliver

SpecCatalog == InitLookups /\ [][NextCatalog]_vars

\* ------------------------------------------- the distance formula, computed

\* The haversine formula of calculateDistance carried out step by step in
\* fixed point, for coordinates in whole degrees anywhere on the globe.
\* Angles in radians and the values of the trigonometric functions are in
\* units of 1/Scale; the result is in units of 1/Scale km.  Arithmetic
\* rounds to the nearest unit with the same magnitude for either sign, as
\* IEEE arithmetic does.

\* const R = 6371
R == 6371

\* Math.PI, in units of 1/Scale.
MathPI == 31416

Magnitude(x) == IF x >= 0 THEN x ELSE -x

\* a / b for b > 0, to the nearest unit, a half going away from zero.
Quotient(a, b) ==
    IF a >= 0 THEN (2 * a + b) \div (2 * b) ELSE -((2 * (-a) + b) \div (2 * b))

\* The product of two values in units of 1/Scale.
Times(x, y) == Quotient(x * y, Scale)

\* degrees * (Math.PI / 180): whole degrees to radians.
toRadians(degrees) == Quotient(degrees * MathPI, 180)

\* The sine of 0, 1, ..., 90 degrees.
SineTable ==
    <<
      0, 175, 349, 523, 698, 872, 1045, 1219, 1392, 1564,
      1736, 1908, 2079, 2250, 2419, 2588, 2756, 2924, 3090, 3256,
      3420, 3584, 3746, 3907, 4067, 4226, 4384, 4540, 4695, 4848,
      5000, 5150, 5299, 5446, 5592, 5736, 5878, 6018, 6157, 6293,
      6428, 6561, 6691, 6820, 6947, 7071, 7193, 7314, 7431, 7547,
      7660, 7771, 7880, 7986, 8090, 8192, 8290, 8387, 8480, 8572,
      8660, 8746, 8829, 8910, 8988, 9063, 9135, 9205, 9272, 9336,
      9397, 9455, 9511, 9563, 9613, 9659, 9703, 9744, 9781, 9816,
      9848, 9877, 9903, 9925, 9945, 9962, 9976, 9986, 9994, 9998,
      10000
    >>

\* The angle of the table nearest to a non-negative angle in radians,
\* within one turn.
TableAngle(x) == Quotient(x * 180, MathPI) % 360

\* Math.sin: the table, continued by sin(180 - d) = sin(d),
\* sin(180 + d) = -sin(d) and sin(-x) = -sin(x).
MathSin(x) ==
    LET d == TableAngle(Magnitude(x))
        s == IF d <= 90 THEN SineTable[d + 1]
             ELSE IF d <= 180 THEN SineTable[180 - d + 1]
             ELSE IF d <= 270 THEN -SineTable[d - 180 + 1]
             ELSE -SineTable[360 - d + 1]
    IN  IF x >= 0 THEN s ELSE -s

\* Math.cos: cos(d) = sin(90 - d), cos(-x) = cos(x).
MathCos(x) ==
    LET d == TableAngle(Magnitude(x))
    IN  IF d <= 90 THEN SineTable[90 - d + 1]
        ELSE IF d <= 180 THEN -SineTable[d - 90 + 1]
        ELSE IF d <= 270 THEN -SineTable[270 - d + 1]
        ELSE SineTable[d - 270 + 1]

\* The greatest r in lo .. hi - 1 with r * r <= n.
RECURSIVE RootBetween(_, _, _)
RootBetween(n, lo, hi) ==
    IF hi - lo <= 1 THEN lo
    ELSE LET mid == (lo + hi) \div 2
         IN  IF mid * mid <= n THEN RootBetween(n, mid, hi) ELSE RootBetween(n, lo, mid)

\* Math.sqrt of a value in 0 .. Scale (0 to 1).
MathSqrt(x) == RootBetween(x * Scale, 0, Scale + 1)

\* Math.atan2(y, x) for y, x >= 0: the angle of the table, 0 to 90
\* degrees, whose direction is nearest to (x, y), in radians.
MathAtan2(y, x) ==
    LET cross(d) == y * SineTable[90 - d + 1] - x * SineTable[d + 1]
        below    == {d \in 0..90 : cross(d) <= 0}
        first    == IF below = {} THEN 90
                    ELSE CHOOSE d \in below : \A e \in below : d <= e
        nearest  == IF first > 0 /\ cross(first - 1) < -cross(first)
                    THEN first - 1 ELSE first
    IN  toRadians(nearest)

\* The term with the cosine of the first latitude taken twice.
HaversineTermOwnLatitude(lat1, lng1, lat2, lng2) ==
    LET dLat == toRadians(lat2 - lat1)
        dLng == toRadians(lng2 - lng1)
    IN  Times(MathSin(Quotient(dLat, 2)), MathSin(Quotient(dLat, 2)))
            + Times(Times(Times(MathCos(toRadians(lat1)), MathCos(toRadians(lat1))),
                          MathSin(Quotient(dLng, 2))),
                    MathSin(Quotient(dLng, 2)))

\* const a = sin(dLat/2) * sin(dLat/2)
\*             + cos(lat1) * cos(lat2) * sin(dLng/2) * sin(dLng/2)
HaversineTerm(lat1, lng1, lat2, lng2) ==
    LET dLat == toRadians(lat2 - lat1)
        dLng == toRadians(lng2 - lng1)
    IN  Times(MathSin(Quotient(dLat, 2)), MathSin(Quotient(dLat, 2)))
            + Times(Times(Times(MathCos(toRadians(lat1)), MathCos(toRadians(lat2))),
                          MathSin(Quotient(dLng, 2))),
                    MathSin(Quotient(dLng, 2)))

\* c = 2 * atan2(sqrt(a), sqrt(1 - a)); return R * c.  The square root of
\* a negative 1 - a is NaN, and so is the distance.
DistanceByFormula(lat1, lng1, lat2, lng2) ==
    LET a == HaversineTerm(lat1, lng1, lat2, lng2)
    IN  IF Scale - a < 0 THEN NaN
        ELSE Num(R * (2 * MathAtan2(MathSqrt(a), MathSqrt(Scale - a))))

\* Coordinates over the whole range, in whole degrees.
GridLatitudes == {-90, -60, -30, 0, 30, 60, 90}

GridLongitudes == {-180, -120, -60, 0, 60, 120, 180}

GridPoints == [lat : GridLatitudes, lng : GridLongitudes]

\* A caller holding two points of the grid, before it measures.
InitDistance ==
    /\ env = [DATABASE_URL |-> TRUE, SQUARE_WEBHOOK_SIGNATURE_KEY |-> TRUE]
    /\ merchants = <<>>
    /\ products = <<>>
    /\ variations = <<>>
    /\ inventory = <<>>
    /\ searches = <<>>
    /\ request \in [kind : {"distance"}, A : GridPoints, B : GridPoints]
    /\ response = NoResponse
    /\ effects = NoEffects
    /\ square = [counts |-> [v \in VariationIds |-> <<"2">>], changes |-> 0]
    /\ handlers = [sync |-> NoSync, syncs |-> 0, hooks |-> {}]
    /\ console = <<>>
    /\ home = [products |-> <<>>, loading |-> FALSE, error |-> Null, query |-> <<>>,
               userLocation |-> NoLocation, calls |-> <<>>]

\* The caller measures the distance from the first point to the second
\* and back.
MeasureDistance ==
    /\ request.kind = "distance"
    /\ Idle
    /\ response' = [kind   |-> "distance",
                    there  |-> DistanceByFormula(request.A.lat, request.A.lng,
                                                 request.B.lat, request.B.lng),
                    back   |-> DistanceByFormula(request.B.lat, request.B.lng,
                                                 request.A.lat, request.A.lng)]
    /\ UNCHANGED <<env, store, searches, request, effects>>
    /\ UNCHANGED outside

NextDistance == MeasureDistance

SpecDistance == InitDistance /\ [][NextDistance]_vars

\* ------------------------------------------- webhooks, signed or not

\* A webhook request with any signature, any event type and any body.
AnyWebhookRequest ==
    \E signature \in Signatures, type \in WebhookTypes :
        \E counts \in IF type = "inventory.count.updated" THEN CountLists ELSE {<<>>} :
            Webhook(signature, type, counts)

\* Webhooks against a stocked catalog.
NextHooks == AnyWebhookRequest \/ StockedSync \/ Deliver

SpecHooks == Init /\ [][NextHooks]_vars

\* ------------------------------------- a sync and webhooks, interleaved

\* The sync handler and the webhook handler are async functions: between
\* two awaits of one invocation, steps of other invocations run.  Here a
\* sync of location L1, whose catalog lists item A, runs one await at a
\* time while counts change at the point of sale and Square posts a
\* correctly signed inventory.count.updated for every change.

\* Changes of a count at the point of sale.
MaxChanges == 2

\* Runs of the sync.
MaxSyncs == 1

RaceLocation == "L1"

RaceItems == <<"A">>

\* A webhook invocation: the count it carries, where it is, and the
\* variation row it found.
Hook(id, v, q) ==
    [id |-> id, pc |-> "sent", catalog_object_id |-> v, quantity |-> q,
     variation |-> [id |-> "", productId |-> "", isActive |-> FALSE]]

\* console.log lines: the sync's first and last, and the webhook's line
\* after an upsert, which prints the quantity as it was received and names
\* the variation (here by its id).
SyncStarted == [line |-> "Starting Square sync", variation |-> "", quantity |-> <<>>]

SyncCompleted == [line |-> "Sync completed", variation |-> "", quantity |-> <<>>]

InventoryUpdated(v, q) == [line |-> "Updated inventory", variation |-> v, quantity |-> q]

\* A count changes at the point of sale, and Square posts the new count.
SquareCountChanges ==
    \E v \in VariationsOf(RaceItems) : \E q \in QuantityTexts \ {square.counts[v]} :
        /\ square.changes < MaxChanges
        /\ square' = [counts |-> [square.counts EXCEPT ![v] = q],
                      changes |-> square.changes + 1]
        /\ handlers' = [handlers EXCEPT
                            !.hooks = @ \cup {Hook(square.changes + 1, v, q)}]
        /\ UNCHANGED <<env, store, searches, request, response, effects, console, home>>

\* The webhook POST down to findUnique in handleInventoryUpdate: the
\* signature is checked and the variation looked up; an unknown variation
\* ends the invocation.
WebhookFind ==
    \E h \in handlers.hooks :
        /\ h.pc = "sent"
        /\ handlers' = [handlers EXCEPT !.hooks =
               IF /\ verifyWebhookSignature(env.SQUARE_WEBHOOK_SIGNATURE_KEY, "match") = "valid"
                  /\ h.catalog_object_id \in DOMAIN variations
               THEN (@ \ {h}) \cup {[h EXCEPT !.pc = "found",
                                              !.variation = variations[h.catalog_object_id]]}
               ELSE @ \ {h}]
        /\ UNCHANGED <<env, store, searches, request, response, effects, square, console, home>>

\* prisma.inventory.upsert of handleInventoryUpdate, and its console.log.
WebhookUpsert ==
    \E h \in handlers.hooks :
        /\ h.pc = "found"
        /\ inventory' = Put(inventory, <<h.variation.productId, h.variation.id>>,
                            OrZero(parseInt(h.quantity)))
        /\ console' = Append(console, InventoryUpdated(h.variation.id, h.quantity))
        /\ handlers' = [handlers EXCEPT !.hooks = @ \ {h}]
        /\ UNCHANGED <<env, merchants, products, variations, searches, request, response,
                       effects, square, home>>

\* The sync POST down to its first await.
SyncStart ==
    /\ handlers.sync.pc = "idle"
    /\ handlers.syncs < MaxSyncs
    /\ handlers' = [handlers EXCEPT !.syncs = @ + 1,
                                    !.sync = [NoSync EXCEPT !.pc = "read"]]
    /\ console' = Append(console, SyncStarted)
    /\ UNCHANGED <<env, store, searches, request, response, effects, square, home>>

\* syncMerchantData returns: the listing, and the counts the point of sale
\* holds at this moment.
SyncRead ==
    /\ handlers.sync.pc = "read"
    /\ handlers' = [handlers EXCEPT !.sync =
           [pc |-> "merchant",
            inventory |-> getInventory([v \in VariationsOf(RaceItems) |-> square.counts[v]]),
            items |-> RaceItems, productId |-> "", vs |-> <<>>]]
    /\ UNCHANGED <<env, store, searches, request, response, effects, square, console, home>>

\* prisma.merchant.upsert.
SyncMerchant ==
    /\ handlers.sync.pc = "merchant"
    /\ merchants' = UpsertMerchant(merchants, SquareLocation(RaceLocation))
    /\ handlers' = [handlers EXCEPT !.sync.pc = "product"]
    /\ UNCHANGED <<env, products, variations, inventory, searches, request, response,
                   effects, square, console, home>>

\* The head of the outer loop: prisma.product.upsert of the next item, or
\* the end of the sync.
SyncProduct ==
    /\ handlers.sync.pc = "product"
    /\ IF handlers.sync.items = <<>>
       THEN /\ handlers' = [handlers EXCEPT !.sync = NoSync]
            /\ console' = Append(console, SyncCompleted)
            /\ UNCHANGED products
       ELSE LET sp == SquareProduct(Head(handlers.sync.items))
                ps == UpsertProduct(products, merchants[RaceLocation].id, sp)
            IN  /\ products' = ps
                /\ handlers' = [handlers EXCEPT !.sync.pc = "variation",
                                                !.sync.items = Tail(@),
                                                !.sync.productId = ps[sp.id].id,
                                                !.sync.vs = sp.variations]
                /\ UNCHANGED console
    /\ UNCHANGED <<env, merchants, variations, inventory, searches, request, response,
                   effects, square, home>>

\* The head of the inner loop: prisma.productVariation.upsert of the next
\* variation, whose inventory write follows when a count was read for it.
SyncVariation ==
    /\ handlers.sync.pc = "variation"
    /\ IF handlers.sync.vs = <<>>
       THEN /\ handlers' = [handlers EXCEPT !.sync.pc = "product"]
            /\ UNCHANGED variations
       ELSE LET v == Head(handlers.sync.vs)
            IN  /\ variations' = UpsertVariation(variations, handlers.sync.productId, v)
                /\ handlers' = IF v \in DOMAIN handlers.sync.inventory
                               THEN [handlers EXCEPT !.sync.pc = "inventory"]
                               ELSE [handlers EXCEPT !.sync.vs = Tail(@)]
    /\ UNCHANGED <<env, merchants, products, inventory, searches, request, response,
                   effects, square, console, home>>

\* prisma.inventory.upsert of the sync, with the count read by SyncRead; a
\* count that is NaN makes it throw, which ends the sync.
SyncInventory ==
    /\ handlers.sync.pc = "inventory"
    /\ LET v == Head(handlers.sync.vs)
       IN  IF handlers.sync.inventory[v].nan
           THEN /\ handlers' = [handlers EXCEPT !.sync = NoSync]
                /\ UNCHANGED inventory
           ELSE /\ inventory' = Put(inventory, <<handlers.sync.productId, variations[v].id>>,
                                    handlers.sync.inventory[v].v)
                /\ handlers' = [handlers EXCEPT !.sync.pc = "variation",
                                                !.sync.vs = Tail(@)]
    /\ UNCHANGED <<env, merchants, products, variations, searches, request, response,
                   effects, square, console, home>>

NextRace ==
    \/ SquareCountChanges
    \/ WebhookFind
    \/ WebhookUpsert
    \/ SyncStart
    \/ SyncRead
    \/ SyncMerchant
    \/ SyncProduct
    \/ SyncVariation
    \/ SyncInventory

SpecRace == InitLookups /\ [][NextRace]_vars

\* -------------------------------------------------------- the home page

\* Searches submitted from the home page.
MaxSubmits == 2

HomeQueries == {Hat, <<"c", "a", "p">>}

HomeLocations ==
    {NoLocation,
     [present |-> TRUE, latitude |-> FallbackLat.text, longitude |-> FallbackLng.text]}

\* new URLSearchParams({query, limit: '20', inStock: 'true'}), with lat,
\* lng and radius '10' appended when a location is given.
SearchParams(searchQuery, location) ==
    [query    |-> Raw(searchQuery),
     lat      |-> IF location.present THEN Raw(location.latitude) ELSE Absent,
     lng      |-> IF location.present THEN Raw(location.longitude) ELSE Absent,
     radius   |-> IF location.present THEN Raw(<<"1", "0">>) ELSE Absent,
     limit    |-> Raw(<<"2", "0">>),
     category |-> Absent,
     inStock  |-> Raw(<<"t", "r", "u", "e">>)]

\* The message of the search handler's error bodies.
ErrorMessage(code) ==
    CASE code = "BUILD_TIME"     -> "API not available during build"
      [] code = "INVALID_PARAMS" -> "Invalid search parameters"
      [] OTHER                   -> "Failed to search products"

\* handleSearch down to its fetch: the three setters, setUserLocation, and
\* the request sent.  The call is kept with what it has displayed.
handleSearch ==
    \E searchQuery \in HomeQueries, location \in HomeLocations :
        /\ Len(home.calls) < MaxSubmits
        /\ home' = [home EXCEPT
               !.loading = TRUE,
               !.error = Null,
               !.query = searchQuery,
               !.userLocation = IF location.present THEN location ELSE @,
               !.calls = Append(@, [query |-> searchQuery,
                                    params |-> SearchParams(searchQuery, location),
                                    at |-> "fetch", products |-> <<>>, error |-> Null])]
        /\ UNCHANGED <<env, store, searches, request, response, effects,
                       square, handlers, console>>

\* The server answers the request of a call that waits on its fetch.
HomeSearchRequest ==
    \E i \in DOMAIN home.calls : \E fault \in FaultsFor(home.calls[i].params) :
        /\ home.calls[i].at = "fetch"
        /\ IF Len(searches) < MaxSearches THEN TRUE
           ELSE MayNotLog(home.calls[i].params, fault)
        /\ Search(home.calls[i].params, fault)

\* The response reaches the call that sent the request: the rest of the
\* try block and the finally block.
HomeResponse ==
    \E i \in DOMAIN home.calls :
        /\ home.calls[i].at = "fetch"
        /\ response.kind = "search"
        /\ request.params = home.calls[i].params
        /\ LET shown == IF response.success THEN response.products ELSE <<>>
               error == IF response.success THEN home.error
                        ELSE IF ErrorMessage(response.error.code) = ""
                        THEN Message("Search failed")
                        ELSE Message(ErrorMessage(response.error.code))
           IN  home' = [home EXCEPT
                   !.products = shown,
                   !.error = error,
                   !.loading = FALSE,
                   !.calls[i].at = "settled",
                   !.calls[i].products = shown,
                   !.calls[i].error = IF response.success THEN Null ELSE error]
        /\ request' = NoRequest
        /\ response' = NoResponse
        /\ effects' = NoEffects
        /\ UNCHANGED <<env, store, searches, square, handlers, console>>

\* The fetch of a call rejects, its request having reached no server: the
\* catch block and the finally block.
HomeFetchRejects ==
    \E i \in DOMAIN home.calls :
        /\ home.calls[i].at = "fetch"
        /\ Idle
        /\ home' = [home EXCEPT
               !.products = <<>>,
               !.error = Message("Failed to search products"),
               !.loading = FALSE,
               !.calls[i].at = "settled",
               !.calls[i].products = <<>>,
               !.calls[i].error = Message("Failed to search products")]
        /\ UNCHANGED <<env, store, searches, request, response, effects,
                       square, handlers, console>>

NextHome == handleSearch \/ HomeSearchRequest \/ HomeResponse \/ HomeFetchRejects

SpecHome == InitLookups /\ [][NextHome]_vars

\* ------------------------------------------------------------ properties

SearchAnswered == response.kind = "search"

SearchSucceeded == SearchAnswered /\ response.success

SearchFailed == SearchAnswered /\ ~response.success

\* The radius the request asked for.
RequestedRadius == JsNumber(request.params.radius).v

\* The distance from the resolved coordinate to the i-th returned product's
\* merchant, before rounding.
Unrounded(i) ==
    calculateDistance(response.searchMeta.location.lat, response.searchMeta.location.lng,
                      response.products[i].merchant.latitude,
                      response.products[i].merchant.longitude)

Reported(i) == response.products[i].merchant.distance

Returned == 1..Len(response.products)

Adjacent == 1..(Len(response.products) - 1)

\* C1 (as claimed): every returned product's reported distance is at most
\* the requested radius, for integer and non-integer radii alike.
C1_ReportedWithinRadius ==
    SearchSucceeded => \A i \in Returned : Reported(i) <= RequestedRadius

\* C1 (amended): every returned product's unrounded distance is at most the
\* requested radius; its reported distance is at most the radius plus 0.05,
\* and at most the radius itself when the radius is a multiple of 0.1.
C1_UnroundedWithinRadius ==
    SearchSucceeded =>
        \A i \in Returned :
            /\ Unrounded(i) <= RequestedRadius
            /\ Reported(i) <= RequestedRadius + Scale \div 20
            /\ RequestedRadius % (Scale \div 10) = 0 => Reported(i) <= RequestedRadius

\* A search with radius 5 returned both products, each reported at 1.1 km.
C1_Witness ==
    /\ SearchSucceeded
    /\ RequestedRadius = 5 * Scale
    /\ Len(response.products) = 2
    /\ \A i \in Returned : Reported(i) = 11000 /\ Unrounded(i) > 10000

\* C2 (as claimed): adjacent results are ordered by reported distance, then
\* total stock descending, then name.
C2_OrderedByReported ==
    SearchSucceeded =>
        \A i \in Adjacent :
            LET a == response.products[i]
                b == response.products[i + 1]
            IN  /\ Reported(i) <= Reported(i + 1)
                /\ Reported(i) = Reported(i + 1) => a.totalStock >= b.totalStock
                /\ (Reported(i) = Reported(i + 1) /\ a.totalStock = b.totalStock)
                       => localeCompare(a.name, b.name) <= 0

\* C2 (amended): adjacent results are ordered by unrounded distance, then
\* total stock descending, then name; their reported distances never
\* decrease.
C2_OrderedByUnrounded ==
    SearchSucceeded =>
        \A i \in Adjacent :
            LET a == response.products[i]
                b == response.products[i + 1]
            IN  /\ Unrounded(i) <= Unrounded(i + 1)
                /\ Reported(i) <= Reported(i + 1)
                /\ Unrounded(i) = Unrounded(i + 1) => a.totalStock >= b.totalStock
                /\ (Unrounded(i) = Unrounded(i + 1) /\ a.totalStock = b.totalStock)
                       => localeCompare(a.name, b.name) <= 0

\* Two products of one merchant with equal stock were returned, so the name
\* decided their order.
C2_Witness ==
    /\ SearchSucceeded
    /\ Len(response.products) = 2
    /\ response.products[1].merchant.id = response.products[2].merchant.id
    /\ response.products[1].totalStock = response.products[2].totalStock
    /\ response.products[1].name # response.products[2].name

\* C3 (as claimed): a search with inStock true returns only products whose
\* totalStock is positive.
C3_InStockPositive ==
    (SearchSucceeded /\ JsBoolean(request.params.inStock)) =>
        \A i \in Returned : response.products[i].totalStock > 0

\* C4 (as claimed): a search whose analytics write failed is still answered
\* with the success response.
C4_LogFailureAbsorbed ==
    (SearchAnswered /\ effects.logFailures > 0) => response.success

\* C5 (as claimed): a successful search without lat and lng is located at
\* the fallback coordinate.
C5_OmittedCoordinatesFallBack ==
    (SearchSucceeded /\ ~request.params.lat.present /\ ~request.params.lng.present) =>
        /\ response.searchMeta.location.lat = BYRON_BAY_COORDS.latitude
        /\ response.searchMeta.location.lng = BYRON_BAY_COORDS.longitude

\* C6 (as claimed): a successful search with exactly one of lat and lng is
\* located at the fallback coordinate in both components.
C6_OneCoordinateFallsBack ==
    (SearchSucceeded /\ request.params.lat.present # request.params.lng.present) =>
        /\ response.searchMeta.location.lat = BYRON_BAY_COORDS.latitude
        /\ response.searchMeta.location.lng = BYRON_BAY_COORDS.longitude

\* C7 (as claimed): a search without radius and limit, nothing else being
\* wrong with it, is not rejected as INVALID_PARAMS, and when it succeeds it
\* ran with radius 10 and limit 20.
C7_DefaultRadiusAndLimit ==
    (/\ SearchAnswered
     /\ env.DATABASE_URL
     /\ ~request.params.radius.present
     /\ ~request.params.limit.present
     /\ ZodStringOk(request.params.query, 1, 100)
     /\ ZodNumberOk(request.params.lat, -90, 90)
     /\ ZodNumberOk(request.params.lng, -180, 180)
     /\ request.params.category.present) =>
        /\ ~response.success => response.error.code # "INVALID_PARAMS"
        /\ response.success =>
              /\ response.searchMeta.radius = 10 * Scale
              /\ response.pagination.limit = 20 * Scale

\* C8 (as claimed): a search without inStock returns no product whose
\* totalStock is 0.
C8_DefaultInStock ==
    (SearchSucceeded /\ ~request.params.inStock.present) =>
        \A i \in Returned : response.products[i].totalStock # 0

\* A number parameter that is present and not a number within [lo, hi].
OutsideRange(raw, lo, hi) ==
    raw.present /\ LET n == JsNumber(raw)
                   IN  n.nan \/ n.v < lo * Scale \/ n.v > hi * Scale

\* The parameters of the request that are malformed or out of range.
MalformedFields ==
    {f \in {"query", "lat", "lng", "radius", "limit"} :
        CASE f = "query"  -> /\ request.params.query.present
                             /\ \/ Len(request.params.query.text) = 0
                                \/ Len(request.params.query.text) > 100
          [] f = "lat"    -> OutsideRange(request.params.lat, -90, 90)
          [] f = "lng"    -> OutsideRange(request.params.lng, -180, 180)
          [] f = "radius" -> OutsideRange(request.params.radius, 1, 50)
          [] f = "limit"  -> OutsideRange(request.params.limit, 1, 100)}

\* C9 (as claimed): a search with a malformed or out-of-range parameter is
\* answered INVALID_PARAMS with the field in the details, no catalog read
\* issued and no log row written.
C9_MalformedRejected ==
    (SearchAnswered /\ MalformedFields # {}) =>
        /\ ~response.success
        /\ response.error.code = "INVALID_PARAMS"
        /\ MalformedFields \subseteq response.error.details
        /\ effects.catalogReads = 0
        /\ effects.logWrites = 0

\* C9 (amended): with DATABASE_URL set, a search with a malformed or
\* out-of-range parameter is answered INVALID_PARAMS with the field in the
\* details; without it the answer is BUILD_TIME; either way no catalog read
\* was issued and no log row written.
C9_MalformedRejectedWhenConfigured ==
    (SearchAnswered /\ MalformedFields # {}) =>
        /\ ~response.success
        /\ env.DATABASE_URL =>
              /\ response.error.code = "INVALID_PARAMS"
              /\ MalformedFields \subseteq response.error.details
        /\ ~env.DATABASE_URL => response.error.code = "BUILD_TIME"
        /\ effects.catalogReads = 0
        /\ effects.logWrites = 0

\* A request with two malformed parameters was rejected while the database
\* was configured.
C9_Witness ==
    /\ SearchAnswered
    /\ env.DATABASE_URL
    /\ Cardinality(MalformedFields) >= 2
    /\ ~response.success
    /\ response.error.code = "INVALID_PARAMS"

\* C10 (as claimed): every error response of the search endpoint carries
\* INVALID_PARAMS or SEARCH_ERROR.
C10_TwoErrorCodes ==
    SearchFailed => response.error.code \in {"INVALID_PARAMS", "SEARCH_ERROR"}

\* C10 (amended): every error response of the search endpoint carries
\* INVALID_PARAMS, SEARCH_ERROR or BUILD_TIME, and BUILD_TIME exactly when
\* DATABASE_URL is not set.
C10_ThreeErrorCodes ==
    SearchFailed =>
        /\ response.error.code \in {"INVALID_PARAMS", "SEARCH_ERROR", "BUILD_TIME"}
        /\ response.error.code = "BUILD_TIME" <=> ~env.DATABASE_URL

\* A store failure was answered with SEARCH_ERROR.
C10_Witness ==
    /\ SearchFailed
    /\ effects.catalogReads = 1
    /\ response.error.code = "SEARCH_ERROR"

\* C11: the log row written for a successful search records the length of
\* the products array of that response, and the query, coordinate and
\* radius of its searchMeta.
C11_LogMatchesResponse ==
    SearchSucceeded =>
        /\ effects.logWrites = 1
        /\ searches # <<>>
        /\ LET row == searches[Len(searches)]
           IN  /\ row.results = Len(response.products)
               /\ row.query = response.searchMeta.query
               /\ row.latitude = response.searchMeta.location.lat
               /\ row.longitude = response.searchMeta.location.lng
               /\ row.radius = response.searchMeta.radius

\* A search with limit 2 returned one product and logged one result.
C11_Witness ==
    /\ SearchSucceeded
    /\ response.pagination.limit = 2 * Scale
    /\ Len(response.products) = 1
    /\ searches[Len(searches)].results = 1

\* A handler of the read side answers in this step.
LookupAnswers == Idle /\ request'.kind \in {"search", "suggestions", "product"}

Asked == Validated(request.params)

\* C13: every product of a search response is active, belongs to an active
\* merchant and contains the query, whatever its case, in its name,
\* description or category; under a category filter its category contains
\* the filter, whatever its case.
C13_ReturnedMatch ==
    SearchSucceeded =>
        \A i \in Returned :
            LET r == response.products[i]
                p == products[r.id]
            IN  /\ p.isActive
                /\ merchants[p.merchantId].isActive
                /\ \/ includes(toLowerCase(r.name), toLowerCase(Asked.query))
                   \/ r.description.present
                      /\ includes(toLowerCase(r.description.text), toLowerCase(Asked.query))
                   \/ r.category.present
                      /\ includes(toLowerCase(r.category.text), toLowerCase(Asked.query))
                /\ Asked.category # <<>> =>
                       /\ r.category.present
                       /\ includes(toLowerCase(r.category.text), toLowerCase(Asked.category))

\* An upper-case query under an upper-case category filter returned the one
\* product of that category while the closed location owned other products.
C13_Witness ==
    /\ SearchSucceeded
    /\ Asked.query = <<"T">>
    /\ Asked.category = <<"C", "A", "P">>
    /\ Len(response.products) = 1
    /\ response.products[1].id = "A"
    /\ \E i \in DOMAIN products : ~merchants[products[i].merchantId].isActive

\* The sum of the quantities of a response's variations.
RECURSIVE SumOfQuantities(_)
SumOfQuantities(vs) ==
    IF vs = {} THEN 0
    ELSE LET x == CHOOSE y \in vs : TRUE
         IN  x.quantity + SumOfQuantities(vs \ {x})

ProductAnswered == response.kind = "product" /\ response.success

\* C14: in every search response and every product-detail response a
\* product's totalStock is the sum of the quantities of the variations the
\* response lists for it, a variation without an inventory row counting 0
\* and a product without variations totalling 0.
C14_TotalStockIsSum ==
    /\ SearchSucceeded =>
           \A i \in Returned :
               response.products[i].totalStock = SumOfQuantities(response.products[i].variations)
    /\ ProductAnswered =>
           response.product.totalStock = SumOfQuantities(response.product.variations)

\* The detail of a product whose one variation has a row (of -2) and whose
\* other variation has none.
C14_Witness ==
    /\ ProductAnswered
    /\ response.product.id = "A"
    /\ response.product.variations = {[id |-> "a1", quantity |-> -2], [id |-> "a2", quantity |-> 0]}
    /\ \A k \in DOMAIN inventory : k[2] # "a2"
    /\ response.product.totalStock = -2

\* A search returned a product that has no variations, with totalStock 0,
\* beside one whose variations hold stock.
C14_WitnessSearch ==
    /\ SearchSucceeded
    /\ \E i \in Returned : /\ response.products[i].variations = {}
                            /\ response.products[i].totalStock = 0
    /\ \E i \in Returned : response.products[i].totalStock = 2

\* C15: in every successful search response pagination.limit is the limit
\* the request asked for (20 when it asked for none) and the products array
\* is no longer than it.
C15_LimitRespected ==
    SearchSucceeded =>
        /\ response.pagination.limit =
               IF request.params.limit.present THEN JsNumber(request.params.limit).v
               ELSE 20 * Scale
        /\ Len(response.products) * Scale <= response.pagination.limit

\* A search with limit 1 read two candidates, kept both and returned one.
C15_Witness ==
    /\ SearchSucceeded
    /\ request.params.limit = Raw(<<"1">>)
    /\ ~Asked.inStock
    /\ Cardinality(effects.fetched) = 2
    /\ Len(response.products) = 1

\* The products of the catalog that the where clause of the search being
\* answered selects.
TextMatches == {i \in DOMAIN products : Matches(products[i], Asked)}

\* C16: every successful search response has hasMore false, page 1 and
\* total equal to the number of products it returns, however many more
\* products match.
C16_PaginationFixed ==
    SearchSucceeded =>
        /\ response.pagination.hasMore = FALSE
        /\ response.pagination.page = 1
        /\ response.pagination.total = Len(response.products)

\* A search with limit 1 returned one product, total 1, while three
\* products matched.
C16_Witness ==
    /\ SearchSucceeded
    /\ response.pagination.limit = Scale
    /\ response.pagination.total = 1
    /\ Cardinality(TextMatches) = 3

\* The matching products that the radius and stock filters of the search
\* being answered keep.
Qualifying ==
    {i \in TextMatches :
        Transform(i, Asked, response.searchMeta.location.lat,
                  response.searchMeta.location.lng).keep}

Min(a, b) == IF a < b THEN a ELSE b

\* C17: a search reads at most 2 x limit candidates, each of them a text
\* match, and returns only products among them.
C17_OverFetchCap ==
    SearchSucceeded =>
        /\ Cardinality(effects.fetched) * Scale <= 2 * response.pagination.limit
        /\ effects.fetched \subseteq TextMatches
        /\ \A i \in Returned : response.products[i].id \in effects.fetched

\* C17, the case it names: more than 2 x limit products matched, and the
\* search returned fewer than min(limit, matching products in radius and in
\* stock).
C17_Witness ==
    /\ SearchSucceeded
    /\ Cardinality(TextMatches) * Scale > 2 * response.pagination.limit
    /\ Len(response.products) * Scale <
           Min(response.pagination.limit, Cardinality(Qualifying) * Scale)

SuggestionsAnswered == response.kind = "suggestions"

SuggestionsSucceeded == SuggestionsAnswered /\ response.success

\* The partial query of the suggestions request (empty when not given).
PartialQuery == request.params.query.text

\* The limit the suggestions request asked for.
RequestedCount == JsNumber(request.params.limit).v

\* C18: a suggestions request with a limit N in 1..10 is answered with at
\* most N strings, each of which contains the partial query, whatever its
\* case, when that query is not empty.
C18_SuggestionsBounded ==
    (/\ SuggestionsAnswered
     /\ request.params.limit.present
     /\ RequestedCount >= Scale
     /\ RequestedCount <= 10 * Scale
     /\ Len(PartialQuery) <= 50) =>
        /\ response.success
        /\ Len(response.suggestions) * Scale <= RequestedCount
        /\ PartialQuery # <<>> =>
               \A i \in 1..Len(response.suggestions) :
                   includes(toLowerCase(response.suggestions[i]), toLowerCase(PartialQuery))

\* An upper-case query that five entries contain was answered with the
\* first four of them under limit 4.
C18_Witness ==
    /\ SuggestionsSucceeded
    /\ PartialQuery = <<"T">>
    /\ RequestedCount = 4 * Scale
    /\ Len(response.suggestions) = 4
    /\ response.suggestions[4] = Vocabulary[8]

\* C19 (as claimed): a suggestions request with an empty partial query and
\* a limit N in 1..10 is answered with the first N entries of the
\* vocabulary, in order.
C19_EmptyQueryFirstN ==
    (SuggestionsSucceeded /\ PartialQuery = <<>>) =>
        response.suggestions = SubSeq(Vocabulary, 1, RequestedCount \div Scale)

\* The merchant's distance from the coordinate of the detail request,
\* rounded to one decimal.
DetailRounded ==
    RoundDistance(calculateDistance(parseFloat(request.lat.text).v,
                                    parseFloat(request.lng.text).v,
                                    response.product.merchant.latitude,
                                    response.product.merchant.longitude))

\* C20 (as claimed): a product-detail response to a request with both lat
\* and lng carries the merchant's distance from that coordinate rounded to
\* one decimal, 0 at the merchant's own coordinate; the distance is absent
\* only when no coordinate was supplied.
C20_DetailDistance ==
    ProductAnswered =>
        /\ (request.lat.present /\ request.lng.present) =>
               response.product.merchant.distance = Defined(DetailRounded)
        /\ ~response.product.merchant.distance.defined =>
               ~(request.lat.present /\ request.lng.present)

\* C22 (as claimed): every stored Inventory quantity is a non-negative
\* integer, whatever quantities the point of sale reported.
C22_QuantityNonNegative ==
    \A k \in DOMAIN inventory : inventory[k] \in Nat

\* C24: the distance reported for a search result is the multiple of 0.1 km
\* nearest to the computed distance, a half going up: it lies within 0.05
\* km of the computed distance, which is less than 0.05 km above it.
C24_RoundedToTenth ==
    SearchSucceeded =>
        \A i \in Returned :
            /\ Reported(i) % (Scale \div 10) = 0
            /\ Reported(i) - Scale \div 20 <= Unrounded(i)
            /\ Unrounded(i) < Reported(i) + Scale \div 20

\* Results at 1.0564 km and at 1.0897 km were both reported at 1.1 km.
C24_Witness ==
    /\ SearchSucceeded
    /\ Len(response.products) = 2
    /\ Unrounded(1) = 10564 /\ Reported(1) = 11000
    /\ Unrounded(2) = 10897 /\ Reported(2) = 11000

\* The rows read by the search being answered that its radius and stock
\* filters keep.
Survivors ==
    {i \in effects.fetched :
        Transform(i, Asked, response.searchMeta.location.lat,
                  response.searchMeta.location.lng).keep}

ReturnedIds == {response.products[i].id : i \in Returned}

\* The unrounded distance of a stored product from the coordinate of the
\* search being answered.
DistanceOf(i) ==
    calculateDistance(response.searchMeta.location.lat, response.searchMeta.location.lng,
                      merchants[products[i].merchantId].latitude,
                      merchants[products[i].merchantId].longitude)

\* Product x comes strictly before product y: nearer, or as near with more
\* stock, or as near with the same stock and the earlier name.
Before(x, y) ==
    \/ DistanceOf(x) < DistanceOf(y)
    \/ /\ DistanceOf(x) = DistanceOf(y)
       /\ \/ TotalStock(x) > TotalStock(y)
          \/ /\ TotalStock(x) = TotalStock(y)
             /\ localeCompare(products[x].name, products[y].name) < 0

\* C25: the products returned are the first `limit` of the surviving
\* candidates in the order of unrounded distance, then total stock
\* descending, then name: they are survivors, as many as the limit allows,
\* in that order, and no survivor left out comes before a returned one.
C25_FirstLimitSurvivors ==
    SearchSucceeded =>
        /\ ReturnedIds \subseteq Survivors
        /\ Len(response.products) = Min(Cardinality(Survivors), response.pagination.limit \div Scale)
        /\ \A i \in Adjacent : ~Before(response.products[i + 1].id, response.products[i].id)
        /\ \A x \in Survivors \ ReturnedIds : \A y \in ReturnedIds : ~Before(x, y)

\* A search with limit 1 kept two candidates at different distances and
\* returned the nearer one.
C25_Witness ==
    /\ SearchSucceeded
    /\ response.pagination.limit = Scale
    /\ Cardinality(Survivors) = 2
    /\ Len(response.products) = 1
    /\ \E x \in Survivors \ ReturnedIds : DistanceOf(x) > Unrounded(1)

\* C26 (as claimed): a request that passes inStock=false has the stock
\* filter off: a matching product in the radius whose total stock is 0 is
\* kept as a candidate, so it is returned whenever the limit leaves room.
C26_ExplicitFalseKeepsUnstocked ==
    (SearchSucceeded /\ request.params.inStock = Raw(<<"f", "a", "l", "s", "e">>)) =>
        \A i \in effects.fetched :
            (/\ TotalStock(i) = 0
             /\ DistanceOf(i) <= RequestedRadius
             /\ Len(response.products) < response.pagination.limit \div Scale)
                => i \in ReturnedIds

\* C27: a webhook request whose signature is not the digest is never
\* answered with success and leaves every Inventory row as it was, whatever
\* its body and event type.
C27_UnverifiedWebhookRejected ==
    [][(Idle /\ request'.kind = "webhook" /\ request'.signature # "match")
           => (~response'.success /\ inventory' = inventory)]_vars

\* An inventory webhook with a wrong signature of the right length was
\* answered 401 while the store held inventory rows.
C27_Witness ==
    /\ response.kind = "webhook"
    /\ request.signature = "mismatch"
    /\ request.type = "inventory.count.updated"
    /\ response.status = 401
    /\ inventory # <<>>

\* C28: a Product row, once created, keeps its merchant: no step changes
\* the merchantId of an existing row or removes the row, while a sync sets
\* name, description and category to the item's and the active flag to true.
C28_MerchantNeverChanges ==
    [][\A p \in DOMAIN products :
           /\ p \in DOMAIN products'
           /\ products'[p].merchantId = products[p].merchantId
           /\ products'[p].name = SquareProduct(p).name
           /\ products'[p].description = SquareProduct(p).description
           /\ products'[p].category = SquareProduct(p).category
           /\ products'[p].isActive]_vars

\* A sync under location L3 covered all three items, creating B, while
\* item A, created by a sync under L1, still belongs to L1.
C28_Witness ==
    /\ response.kind = "sync"
    /\ response.success
    /\ request.locationId = "L3"
    /\ response.synced.products = 3
    /\ products["A"].merchantId = "L1"
    /\ products["B"].merchantId = "L3"

\* C23: the distance function is symmetric: for all points A and B with
\* latitudes in [-90, 90] and longitudes in [-180, 180], the distance from
\* A to B is a number and equals the distance from B to A.
C23_DistanceSymmetric ==
    response.kind = "distance" =>
        /\ ~response.there.nan
        /\ ~response.back.nan
        /\ response.there.v = response.back.v

\* Two points with different latitudes and longitudes were measured both
\* ways and are a positive distance apart.
C23_Witness ==
    /\ response.kind = "distance"
    /\ request.A.lat = 0 /\ request.B.lat = 60
    /\ request.A.lng = 0 /\ request.B.lng = 120
    /\ ~response.there.nan
    /\ response.there.v > 0

\* The sync and every webhook have finished.
Quiescent == handlers.sync.pc = "idle" /\ handlers.hooks = {}

\* The pair an inventory row of the sync's current variation has.
SyncPair == <<handlers.sync.productId, Head(handlers.sync.vs)>>

\* The webhook invocations that upsert pair k in this step.
HooksUpserting(k) ==
    {h \in handlers.hooks \ handlers'.hooks :
        h.pc = "found" /\ <<h.variation.productId, h.variation.id>> = k}

\* C21: under every interleaving of sync and webhook steps the Inventory
\* rows stay one per (productId, variationId) pair, and a row holds the
\* quantity of the last upsert applied to its pair: a step that upserts the
\* pair leaves that upsert's quantity in the row, and no other step
\* changes, adds or removes the row.
C21_RowHoldsLastUpsert ==
    [][\A k \in (DOMAIN inventory) \cup (DOMAIN inventory') :
           /\ k \in DOMAIN inventory'
           /\ IF handlers.sync.pc = "inventory" /\ handlers'.sync.pc = "variation"
                  /\ k = SyncPair
              THEN inventory'[k] = handlers.sync.inventory[k[2]].v
              ELSE IF HooksUpserting(k) # {}
              THEN \E h \in HooksUpserting(k) : inventory'[k] = OrZero(parseInt(h.quantity))
              ELSE k \in DOMAIN inventory /\ inventory'[k] = inventory[k]]_vars

\* A webhook wrote the row of variation a1 while a sync was running, the
\* sync wrote it after the webhook, and both have finished: the row holds
\* the sync's quantity, and a2 has its own row.
C21_Witness ==
    /\ Quiescent
    /\ Len(console) = 3
    /\ console[1] = SyncStarted
    /\ console[2].line = "Updated inventory"
    /\ console[2].variation = "a1"
    /\ console[3] = SyncCompleted
    /\ <<"A", "a2">> \in DOMAIN inventory
    /\ inventory[<<"A", "a1">>] # OrZero(parseInt(console[2].quantity))

\* Line j of the console was written while a sync was in progress.
DuringSync(j) ==
    \E i \in 1..(j - 1) :
        /\ console[i] = SyncStarted
        /\ \A m \in (i + 1)..(j - 1) : console[m] # SyncCompleted

\* C29 (as claimed): when a webhook for a variation was applied while a
\* sync covering the variation was in progress, carrying the count the
\* point of sale holds, and no webhook for the variation was applied
\* after it, then once the sync and the webhooks have finished the stored
\* quantity is the webhook's.
C29_WebhookQuantityKept ==
    Quiescent =>
        \A j \in DOMAIN console :
            (/\ console[j].line = "Updated inventory"
             /\ DuringSync(j)
             /\ console[j].quantity = square.counts[console[j].variation]
             /\ \A m \in (j + 1)..Len(console) :
                    ~(console[m].line = "Updated inventory"
                      /\ console[m].variation = console[j].variation))
                => inventory[<<variations[console[j].variation].productId,
                               console[j].variation>>] = OrZero(parseInt(console[j].quantity))

\* C30 (as claimed): when two searches were submitted from the home page
\* and both have settled, in whatever order, the page shows the query, the
\* products and the error of the search submitted last, and is not
\* loading.
C30_LatestSearchShown ==
    (Len(home.calls) = 2 /\ \A i \in 1..2 : home.calls[i].at = "settled") =>
        /\ home.query = home.calls[2].query
        /\ home.products = home.calls[2].products
        /\ home.error = home.calls[2].error
        /\ ~home.loading

====
